---- MODULE Spec2Model ----
(***************************************************************************)
(* WHOIS referral proxy (api/whois.js, the revision that "Handles IANA     *)
(* referral to any known RIR"): one HTTP request, its at most two WHOIS    *)
(* hops, and for every hop the socket / timer / promise closure that      *)
(* queryWhoisServer builds.                                                *)
(*                                                                         *)
(* Text is a sequence of tokens [t |-> kind, s |-> payload]; the payload   *)
(* is always a sequence of strings.  A query is the sequence of its        *)
(* characters.  A token of kind "host" is a maximal run of the characters  *)
(* [a-zA-Z0-9.-]; every chunk a peer sends puts a non-host character       *)
(* after a host run, so runs never merge across tokens.                    *)
(***************************************************************************)
EXTENDS Integers, Sequences, FiniteSets, TLC

\* ------------------------------------------------------------------ bounds
MaxChunks == 2
MaxErrors == 1

\* --------------------------------------------------------------- constants
IANA_WHOIS_SERVER == "whois.iana.org"
WHOIS_PORT == 43
QUERY_TIMEOUT == 8000

\* the table without the entry for IANA itself
RIR_SERVERS_NoIana ==
  << [key |-> "ARIN",    server |-> "whois.arin.net"],
     [key |-> "RIPE",    server |-> "whois.ripe.net"],
     [key |-> "APNIC",   server |-> "whois.apnic.net"],
     [key |-> "LACNIC",  server |-> "whois.lacnic.net"],
     [key |-> "AFRINIC", server |-> "whois.afrinic.net"],
     [key |-> "whois.verisign-grs.com", server |-> "whois.verisign-grs.com"] >>

RIR_SERVERS ==
  << [key |-> "ARIN",    server |-> "whois.arin.net"],
     [key |-> "RIPE",    server |-> "whois.ripe.net"],
     [key |-> "APNIC",   server |-> "whois.apnic.net"],
     [key |-> "LACNIC",  server |-> "whois.lacnic.net"],
     [key |-> "AFRINIC", server |-> "whois.afrinic.net"],
     [key |-> "IANA",    server |-> "whois.iana.org"],
     [key |-> "whois.verisign-grs.com", server |-> "whois.verisign-grs.com"] >>

\* RIR_SERVERS[key]
RirServer(key) ==
  LET i == CHOOSE j \in 1..Len(RIR_SERVERS) : RIR_SERVERS[j].key = key
  IN  RIR_SERVERS[i].server

Hops == {1, 2}

\* -------------------------------------------------------------------- text
Tok(t, s) == [t |-> t, s |-> s]
NL == Tok("nl", <<"\n">>)
WS == Tok("ws", <<" ">>)
Rule == Tok("rule", <<"-----">>)

IsSpace(tok) == tok.t \in {"nl", "ws"}

\* String.prototype.toLowerCase on the strings and characters of the model
ToLower(s) ==
  CASE s = "WHOIS.IANA.ORG" -> "whois.iana.org"
    [] s = "Whois.NIC.example" -> "whois.nic.example"
    [] s = "Whois:" -> "whois:"
    [] s = "C" -> "c"
    [] s = "O" -> "o"
    [] s = "M" -> "m"
    [] s = "N" -> "n"
    [] s = "E" -> "e"
    [] s = "T" -> "t"
    [] OTHER -> s

\* the suffix test done on the query as typed
LowerSeqIdentity(cs) == cs

LowerSeq(cs) == [i \in 1..Len(cs) |-> ToLower(cs[i])]

\* String.prototype.endsWith
EndsWith(cs, suffix) ==
  /\ Len(cs) >= Len(suffix)
  /\ SubSeq(cs, Len(cs) - Len(suffix) + 1, Len(cs)) = suffix

\* String.prototype.trim on a token text
RECURSIVE TrimLeft(_)
TrimLeft(text) ==
  IF text # <<>> /\ IsSpace(Head(text)) THEN TrimLeft(Tail(text)) ELSE text

RECURSIVE TrimRight(_)
TrimRight(text) ==
  IF text # <<>> /\ IsSpace(text[Len(text)])
  THEN TrimRight(SubSeq(text, 1, Len(text) - 1))
  ELSE text

Trim(text) == TrimRight(TrimLeft(text))

Digits == {"0", "1", "2", "3", "4", "5", "6", "7", "8", "9"}

\* the pattern with {1,3} widened to +
IsIpAddressLoose(cs) ==
  LET dots == {i \in 1..Len(cs) : cs[i] = "."}
  IN  /\ Cardinality(dots) = 3
      /\ \A i \in 1..Len(cs) : cs[i] \in Digits \cup {"."}
      /\ \A i \in dots : i > 1 /\ i < Len(cs) /\ (i + 1) \notin dots

\* /^(?:[0-9]{1,3}\.){3}[0-9]{1,3}$/.test(query)
IsIpAddress(cs) ==
  LET dots == {i \in 1..Len(cs) : cs[i] = "."}
      NextDot(i) == IF \E j \in dots : j > i
                    THEN CHOOSE j \in dots : j > i /\ \A k \in dots : k > i => j <= k
                    ELSE Len(cs) + 1
  IN  /\ Cardinality(dots) = 3
      /\ \A i \in 1..Len(cs) : cs[i] \in Digits \cup {"."}
      /\ \A i \in dots \cup {0} : (NextDot(i) - i - 1) \in 1..3

\* The run of [a-zA-Z0-9.-] characters a token starts with ("" if none).
LeadRun(tok) ==
  CASE tok.t = "host" -> tok.s[1]
    [] tok.t = "kw" -> IF ToLower(tok.s[1]) = "whois:" THEN "whois" ELSE "refer"
    [] tok.t = "timeoutNotice" -> "---"
    [] OTHER -> ""

\* index of the first token at or after i that is not white space
RECURSIVE SkipSpace(_, _)
SkipSpace(text, i) ==
  IF i <= Len(text) /\ IsSpace(text[i]) THEN SkipSpace(text, i + 1) ELSE i

\* the pattern /<kw>\s*([a-zA-Z0-9.-]+)/i matches with the keyword at i
MatchAt(text, i, kw) ==
  /\ text[i].t = "kw"
  /\ ToLower(text[i].s[1]) = kw
  /\ LET j == SkipSpace(text, i + 1)
     IN  j <= Len(text) /\ LeadRun(text[j]) # ""

\* ianaData.match(pattern): match[1] of the leftmost match, "" for no match
FirstMatch(text, kw) ==
  IF \E i \in 1..Len(text) : MatchAt(text, i, kw)
  THEN LET i == CHOOSE k \in 1..Len(text) :
                  /\ MatchAt(text, k, kw)
                  /\ \A m \in 1..(k - 1) : ~MatchAt(text, m, kw)
       IN  LeadRun(text[SkipSpace(text, i + 1)])
  ELSE ""

\* ----------------------------------------------------------- parseReferral
NoReferral == [name |-> "", server |-> ""]

\* the loop body that names every referral by its hostname
ReferralForRawName(captured) ==
  LET referredServerHost == ToLower(captured)
  IN  IF referredServerHost # ToLower(IANA_WHOIS_SERVER)
      THEN [name |-> referredServerHost, server |-> referredServerHost]
      ELSE [name |-> "IANA", server |-> IANA_WHOIS_SERVER]

\* the loop body that keeps the hostname of an unknown server as captured
ReferralForKeepCase(captured) ==
  LET referredServerHost == ToLower(captured)
      hits == {i \in 1..Len(RIR_SERVERS) :
                 ToLower(RIR_SERVERS[i].server) = referredServerHost}
  IN  IF hits # {}
      THEN LET i == CHOOSE k \in hits : \A m \in hits : k <= m
           IN  [name |-> RIR_SERVERS[i].key, server |-> RIR_SERVERS[i].server]
      ELSE IF referredServerHost # ToLower(IANA_WHOIS_SERVER)
           THEN [name |-> captured, server |-> captured]
           ELSE NoReferral

\* the body of the for-loop for one captured hostname; NoReferral = fall through
ReferralFor(captured) ==
  LET referredServerHost == ToLower(captured)
      hits == {i \in 1..Len(RIR_SERVERS) :
                 ToLower(RIR_SERVERS[i].server) = referredServerHost}
  IN  IF hits # {}
      THEN LET i == CHOOSE k \in hits : \A m \in hits : k <= m
           IN  [name |-> RIR_SERVERS[i].key, server |-> RIR_SERVERS[i].server]
      ELSE IF referredServerHost # ToLower(IANA_WHOIS_SERVER)
           THEN [name |-> referredServerHost, server |-> referredServerHost]
           ELSE NoReferral

\* the patterns tried in the order 'refer:', 'whois:'
parseReferralReferFirst(ianaData) ==
  IF ianaData = <<>> THEN NoReferral
  ELSE LET w == FirstMatch(ianaData, "whois:")
           r == FirstMatch(ianaData, "refer:")
           fromWhois == IF w # "" THEN ReferralFor(w) ELSE NoReferral
           fromRefer == IF r # "" THEN ReferralFor(r) ELSE NoReferral
       IN  IF fromRefer # NoReferral THEN fromRefer ELSE fromWhois

parseReferral(ianaData) ==
  IF ianaData = <<>> THEN NoReferral
  ELSE LET w == FirstMatch(ianaData, "whois:")
           r == FirstMatch(ianaData, "refer:")
           fromWhois == IF w # "" THEN ReferralFor(w) ELSE NoReferral
           fromRefer == IF r # "" THEN ReferralFor(r) ELSE NoReferral
       IN  IF fromWhois # NoReferral THEN fromWhois ELSE fromRefer

\* ---------------------------------------------------------------- requests
Str(cs) == [kind |-> "string", chars |-> cs]
\* q given twice in the URL arrives as an array; chars is its String() form
Arr(cs) == [kind |-> "array", chars |-> cs]
NoQ == [kind |-> "missing", chars |-> <<>>]

Queries ==
  { Str(<<"8", ".", "8", ".", "8", ".", "8">>),
    Str(<<"9", "9", "9", ".", "9", ".", "9", ".", "9">>),
    Str(<<"1", ".", "2", ".", "3">>),
    Str(<<"1", "2", "3", "4", ".", "1", ".", "1", ".", "1">>),
    Str(<<"a", ".", "C", "O", "M">>),
    Str(<<"b", ".", "n", "e", "t">>),
    Str(<<"e", ".", "o", "r", "g">>),
    Str(<<"c", "o", "m">>),
    Str(<<>>),
    Arr(<<"a", ",", "b">>),
    NoQ }

Requests ==
  [method : {"GET"}, q : Queries]
    \cup [method : {"OPTIONS"}, q : {NoQ, Str(<<"8", ".", "8", ".", "8", ".", "8">>)}]

\* a test for an absent q only, letting the empty string through
FalsyMissingOnly(q) == q.kind = "missing"

\* !query
Falsy(q) == q.kind = "missing" \/ (q.kind = "string" /\ q.chars = <<>>)

\* ------------------------------------------------------------- peer output
KwWhois == Tok("kw", <<"whois:">>)
KwWhoisCap == Tok("kw", <<"Whois:">>)
KwRefer == Tok("kw", <<"refer:">>)
Host(h) == Tok("host", <<h>>)
Other == Tok("other", <<"%">>)

IanaChunks ==
  { <<KwRefer, WS, Host("whois.arin.net"), NL>>,
    <<KwWhoisCap, WS, Host("WHOIS.IANA.ORG"), NL>>,
    <<KwWhois>>,
    <<Host("Whois.NIC.example"), NL>> }

RirChunks == { <<Other, NL>> }

ChunksOf(server) == IF server = IANA_WHOIS_SERVER THEN IanaChunks ELSE RirChunks

ErrorMessages == {"ECONNREFUSED", "ECONNRESET"}

\* ------------------------------------------------------------------- state
VARIABLES
  req,          \* the request: method and req.query.q
  pc,           \* where the async handler stands
  finalReport,  \* the report text built so far
  status,       \* res.status(...), 0 while no response was sent
  contentType,  \* the Content-Type header set on the response
  body,         \* the text sent
  queries,      \* the calls of queryWhoisServer, in order
  call          \* per hop: the closure of one queryWhoisServer call

vars == <<req, pc, finalReport, status, contentType, body, queries, call>>

Pending == [state |-> "pending", value |-> <<>>]

NoCall ==
  [ started |-> FALSE,
    whoisData |-> <<>>,
    connected |-> FALSE,
    operationTimedOut |-> FALSE,
    timeoutId |-> "none",
    destroyed |-> FALSE,
    promise |-> Pending,
    written |-> <<>>,
    chunks |-> 0,
    endEmitted |-> FALSE,
    errors |-> 0,
    settleCalls |-> 0 ]

PlainText == "text/plain; charset=utf-8"

Init ==
  /\ req \in Requests
  /\ pc = "start"
  /\ finalReport = <<>>
  /\ status = 0
  /\ contentType = ""
  /\ body = <<>>
  /\ queries = <<>>
  /\ call = [h \in Hops |-> NoCall]

\* -------------------------------------------------------- queryWhoisServer
\* a future that lets every call of resolve / reject overwrite the outcome
SettleOverwrite(c, state, value) ==
  [c EXCEPT !.promise = [state |-> state, value |-> value],
            !.settleCalls = c.settleCalls + 1]

\* resolve / reject of the promise: only the first call settles it
Settle(c, state, value) ==
  [c EXCEPT !.promise = IF c.promise.state = "pending"
                        THEN [state |-> state, value |-> value]
                        ELSE c.promise,
            !.settleCalls = c.settleCalls + 1]

\* the arguments of the call of queryWhoisServer made for hop h
QueryOf(h) ==
  LET i == CHOOSE j \in 1..Len(queries) : queries[j].hop = h
  IN  queries[i]

TimeoutMessage(h) ==
  Tok("timeoutError", <<QueryOf(h).name, ":43">> \o QueryOf(h).text)

TimeoutNotice(h) ==
  <<NL, NL, Tok("timeoutNotice", <<QueryOf(h).name>>), NL>>

\* the timer callback leaving the outcome to 'end' / 'error' once connected
OnTimeoutSilent(c, h) ==
  LET d == [c EXCEPT !.operationTimedOut = TRUE,
                     !.destroyed = TRUE,
                     !.timeoutId = "fired"]
  IN  IF ~c.connected THEN Settle(d, "rejected", <<TimeoutMessage(h)>>) ELSE d

\* the timer callback rejecting whatever the connection state
OnTimeoutAlwaysReject(c, h) ==
  LET d == [c EXCEPT !.operationTimedOut = TRUE,
                     !.destroyed = TRUE,
                     !.timeoutId = "fired"]
  IN  Settle(d, "rejected", <<TimeoutMessage(h)>>)

\* the setTimeout callback
OnTimeout(c, h) ==
  LET d == [c EXCEPT !.operationTimedOut = TRUE,
                     !.destroyed = TRUE,
                     !.timeoutId = "fired"]
  IN  IF ~c.connected
      THEN Settle(d, "rejected", <<TimeoutMessage(h)>>)
      ELSE Settle(d, "resolved", c.whoisData \o TimeoutNotice(h))

\* the callback given to client.connect
OnConnect(c, h) ==
  [c EXCEPT !.connected = TRUE,
            !.written = Append(c.written, QueryOf(h).text \o <<"\r\n">>)]

\* a 'data' handler that puts the newest chunk in front
OnDataPrepend(c, chunk) ==
  [c EXCEPT !.whoisData = chunk \o c.whoisData, !.chunks = c.chunks + 1]

\* client.on('data')
OnData(c, chunk) ==
  [c EXCEPT !.whoisData = c.whoisData \o chunk, !.chunks = c.chunks + 1]

\* a clearTimeout that leaves the timer armed
ClearTimeoutNoop(c) == c

\* clearTimeout(timeoutId)
ClearTimeout(c) ==
  [c EXCEPT !.timeoutId = IF c.timeoutId = "armed" THEN "cleared" ELSE c.timeoutId]

\* the 'end' handler without client.destroy()
OnEndLeak(c) ==
  LET d == [ClearTimeout(c) EXCEPT !.endEmitted = TRUE]
  IN  IF ~d.operationTimedOut THEN Settle(d, "resolved", d.whoisData) ELSE d

\* client.on('end')
OnEnd(c) ==
  LET d == [ClearTimeout(c) EXCEPT !.endEmitted = TRUE]
      e == IF ~d.operationTimedOut THEN Settle(d, "resolved", d.whoisData) ELSE d
  IN  [e EXCEPT !.destroyed = TRUE]

\* the 'error' handler without client.destroy()
OnErrorLeak(c, msg) ==
  LET d == [ClearTimeout(c) EXCEPT !.errors = c.errors + 1]
  IN  IF ~d.operationTimedOut
      THEN Settle(d, "rejected", <<Tok("error", <<msg>>)>>)
      ELSE d

\* client.on('error')
OnError(c, msg) ==
  LET d == [ClearTimeout(c) EXCEPT !.errors = c.errors + 1]
      e == IF ~d.operationTimedOut
           THEN Settle(d, "rejected", <<Tok("error", <<msg>>)>>)
           ELSE d
  IN  [e EXCEPT !.destroyed = TRUE]

\* the executor of new Promise: socket created, timer armed, connect issued
NewCall == [NoCall EXCEPT !.started = TRUE, !.timeoutId = "armed"]

SocketStep(h, c) ==
  /\ call' = [call EXCEPT ![h] = c]
  /\ UNCHANGED <<req, pc, finalReport, status, contentType, body, queries>>

\* The events below are delivered by the runtime.  'end' and 'error' may
\* still be delivered after client.destroy(): the handlers guard against it.
Timeout(h) ==
  /\ call[h].timeoutId = "armed"
  /\ SocketStep(h, OnTimeout(call[h], h))

Connect(h) ==
  /\ call[h].started
  /\ ~call[h].connected
  /\ ~call[h].destroyed
  /\ SocketStep(h, OnConnect(call[h], h))

Data(h) ==
  /\ call[h].started
  /\ call[h].connected
  /\ ~call[h].destroyed
  /\ ~call[h].endEmitted
  /\ call[h].chunks < MaxChunks
  /\ \E chunk \in ChunksOf(QueryOf(h).server) :
       SocketStep(h, OnData(call[h], chunk))

End(h) ==
  /\ call[h].started
  /\ call[h].connected
  /\ ~call[h].endEmitted
  /\ SocketStep(h, OnEnd(call[h]))

Error(h) ==
  /\ call[h].started
  /\ call[h].errors < MaxErrors
  /\ \E msg \in ErrorMessages : SocketStep(h, OnError(call[h], msg))

\* ------------------------------------------------------------- the handler
IsIp == IsIpAddress(req.q.chars)

Title == <<Tok("title", req.q.chars), NL, Rule, NL>>

IanaResponseBlock(ianaData) ==
  <<NL, Tok("IANA Response", <<IANA_WHOIS_SERVER>>), NL>>
    \o (IF ianaData # <<>> THEN ianaData ELSE <<Tok("No data", <<"IANA">>)>>)
    \o <<NL, Rule, NL, NL>>

IanaErrorBlock(message) ==
  <<NL, Tok("Error Querying IANA", <<>>), NL>> \o message \o <<NL, Rule, NL, NL>>

\* the non-IP path without its note that the IANA pre-lookup was skipped
SkipNoticeMissing == <<>>

SkipNotice == <<NL, Tok("Skipping IANA pre-lookup", req.q.chars), NL, NL>>

AuthoritativeNotice ==
  <<NL, Tok("IANA response above is considered authoritative", req.q.chars), NL>>

NonIpFallbackNote(name) ==
  <<NL, Tok("Attempting query for non-IP", <<name>>), NL, NL>>

IpFallbackNote(name) ==
  <<NL, Tok("No specific RIR referral from IANA", <<name>>), NL, NL>>

NextResponseBlock(name, server, rirData) ==
  <<NL, Tok("Response from", <<name, server>>), NL>>
    \o (IF rirData # <<>> THEN rirData ELSE <<Tok("No data", <<name>>)>>)
    \o <<NL, Rule, NL>>

NextErrorBlock(name, server, message) ==
  <<NL, Tok("Error Querying", <<name, server>>), NL>> \o message \o <<NL, Rule, NL>>

UnexpectedErrorBlock(message) ==
  <<NL, Tok("Unexpected Server Error", <<>>), NL>> \o message \o <<NL, Rule, NL>>

TypeErrorMessage == <<Tok("error", <<"query.toLowerCase is not a function">>)>>

InternalErrorTail == <<NL, NL, Tok("Internal server error processing WHOIS request.", <<>>)>>

\* The choice of the next hop: server "" is serverToQueryNext = null,
\* thrown # <<>> is an exception raised while choosing.
Selection(server, name, note, thrown) ==
  [server |-> server, name |-> name, note |-> note, thrown |-> thrown]

\* the choice that shows only the IANA data when an IP got no referral
SelectNextHopNoFallback(authoritativeRirInfo) ==
  IF authoritativeRirInfo # NoReferral /\ authoritativeRirInfo.server # ""
  THEN IF ToLower(authoritativeRirInfo.server) # ToLower(IANA_WHOIS_SERVER)
       THEN Selection(authoritativeRirInfo.server, authoritativeRirInfo.name, <<>>, <<>>)
       ELSE Selection("", "", AuthoritativeNotice, <<>>)
  ELSE IF ~IsIp
  THEN IF req.q.kind # "string"
       THEN Selection("", "", <<>>, TypeErrorMessage)
       ELSE LET lowerQuery == LowerSeq(req.q.chars)
            IN  IF \/ EndsWith(lowerQuery, <<".", "c", "o", "m">>)
                   \/ EndsWith(lowerQuery, <<".", "n", "e", "t">>)
                THEN Selection(RirServer("whois.verisign-grs.com"),
                               "Verisign (.com/.net)", <<>>, <<>>)
                ELSE Selection(RirServer("RIPE"), "RIPE NCC (Default for non-IP)",
                               NonIpFallbackNote("RIPE NCC (Default for non-IP)"), <<>>)
  ELSE Selection("", "", <<>>, <<>>)

\* the choice that asks IANA again when an IP got no referral
SelectNextHopRetryIana(authoritativeRirInfo) ==
  IF authoritativeRirInfo # NoReferral /\ authoritativeRirInfo.server # ""
  THEN IF ToLower(authoritativeRirInfo.server) # ToLower(IANA_WHOIS_SERVER)
       THEN Selection(authoritativeRirInfo.server, authoritativeRirInfo.name, <<>>, <<>>)
       ELSE Selection("", "", AuthoritativeNotice, <<>>)
  ELSE IF ~IsIp
  THEN IF req.q.kind # "string"
       THEN Selection("", "", <<>>, TypeErrorMessage)
       ELSE LET lowerQuery == LowerSeq(req.q.chars)
            IN  IF \/ EndsWith(lowerQuery, <<".", "c", "o", "m">>)
                   \/ EndsWith(lowerQuery, <<".", "n", "e", "t">>)
                THEN Selection(RirServer("whois.verisign-grs.com"),
                               "Verisign (.com/.net)", <<>>, <<>>)
                ELSE Selection(RirServer("RIPE"), "RIPE NCC (Default for non-IP)",
                               NonIpFallbackNote("RIPE NCC (Default for non-IP)"), <<>>)
  ELSE Selection(IANA_WHOIS_SERVER, "IANA", IpFallbackNote("IANA"), <<>>)

SelectNextHop(authoritativeRirInfo) ==
  IF authoritativeRirInfo # NoReferral /\ authoritativeRirInfo.server # ""
  THEN IF ToLower(authoritativeRirInfo.server) # ToLower(IANA_WHOIS_SERVER)
       THEN Selection(authoritativeRirInfo.server, authoritativeRirInfo.name, <<>>, <<>>)
       ELSE Selection("", "", AuthoritativeNotice, <<>>)
  ELSE IF ~IsIp
  THEN IF req.q.kind # "string"
       THEN Selection("", "", <<>>, TypeErrorMessage)
       ELSE LET lowerQuery == LowerSeq(req.q.chars)
            IN  IF \/ EndsWith(lowerQuery, <<".", "c", "o", "m">>)
                   \/ EndsWith(lowerQuery, <<".", "n", "e", "t">>)
                THEN Selection(RirServer("whois.verisign-grs.com"),
                               "Verisign (.com/.net)", <<>>, <<>>)
                ELSE Selection(RirServer("RIPE"), "RIPE NCC (Default for non-IP)",
                               NonIpFallbackNote("RIPE NCC (Default for non-IP)"), <<>>)
  ELSE Selection(RirServer("RIPE"), "RIPE NCC (Default/Fallback)",
                 IpFallbackNote("RIPE NCC (Default/Fallback)"), <<>>)

\* queryWhoisServer(server, WHOIS_PORT, query, name) up to the await
StartQuery(h, server, name) ==
  /\ queries' = Append(queries, [hop |-> h, server |-> server, port |-> WHOIS_PORT,
                                 text |-> req.q.chars, name |-> name])
  /\ call' = [call EXCEPT ![h] = NewCall]

\* res.status(code).send(text)
Send(code, text) ==
  /\ status' = code
  /\ contentType' = PlainText
  /\ body' = text
  /\ pc' = "done"

\* a 500 body that drops the report built so far
FailureBodyBare(report, message) == InternalErrorTail

\* the text sent by the outer catch
FailureBody(report, message) ==
  Trim(report \o UnexpectedErrorBlock(message)) \o InternalErrorTail

\* from the choice of the next hop to the second await or to the response
Proceed(report, authoritativeRirInfo) ==
  LET sel == SelectNextHop(authoritativeRirInfo)
      next == report \o sel.note
  IN  IF sel.thrown # <<>>
      THEN /\ finalReport' = next \o UnexpectedErrorBlock(sel.thrown)
           /\ Send(500, FailureBody(next, sel.thrown))
           /\ UNCHANGED <<queries, call>>
      ELSE IF sel.server # ""
      THEN /\ finalReport' = next
           /\ StartQuery(2, sel.server, sel.name)
           /\ pc' = "awaitNext"
           /\ UNCHANGED <<status, contentType, body>>
      ELSE /\ finalReport' = next
           /\ Send(200, Trim(next))
           /\ UNCHANGED <<queries, call>>

\* module.exports, from entry to the first await or to the response
HandleRequest ==
  /\ pc = "start"
  /\ UNCHANGED req
  /\ IF req.method = "OPTIONS"
     THEN /\ status' = 200
          /\ pc' = "done"
          /\ UNCHANGED <<finalReport, contentType, body, queries, call>>
     ELSE IF Falsy(req.q)
     THEN /\ Send(400, <<Tok("Query parameter q is required.", <<>>)>>)
          /\ UNCHANGED <<finalReport, queries, call>>
     ELSE IF IsIp
     THEN /\ finalReport' = Title
          /\ StartQuery(1, IANA_WHOIS_SERVER, "IANA")
          /\ pc' = "awaitIana"
          /\ UNCHANGED <<status, contentType, body>>
     ELSE Proceed(Title \o SkipNotice, NoReferral)

\* the IANA hop without its own try / catch: a rejection reaches the outer catch
ResumeAfterIanaAbort ==
  /\ pc = "awaitIana"
  /\ call[1].promise.state # "pending"
  /\ UNCHANGED req
  /\ IF call[1].promise.state = "resolved"
     THEN Proceed(finalReport \o IanaResponseBlock(call[1].promise.value),
                  parseReferral(call[1].promise.value))
     ELSE /\ finalReport' = finalReport \o UnexpectedErrorBlock(call[1].promise.value)
          /\ Send(500, FailureBody(finalReport, call[1].promise.value))
          /\ UNCHANGED <<queries, call>>

\* the IANA hop with a truncated response handled like a failed hop
ResumeAfterIanaPartialAsError ==
  /\ pc = "awaitIana"
  /\ call[1].promise.state # "pending"
  /\ UNCHANGED req
  /\ IF call[1].promise.state = "resolved" /\ ~call[1].operationTimedOut
     THEN Proceed(finalReport \o IanaResponseBlock(call[1].promise.value),
                  parseReferral(call[1].promise.value))
     ELSE Proceed(finalReport \o IanaErrorBlock(call[1].promise.value), NoReferral)

\* the handler resumes after await queryWhoisServer(IANA_WHOIS_SERVER, ...)
ResumeAfterIana ==
  /\ pc = "awaitIana"
  /\ call[1].promise.state # "pending"
  /\ UNCHANGED req
  /\ IF call[1].promise.state = "resolved"
     THEN Proceed(finalReport \o IanaResponseBlock(call[1].promise.value),
                  parseReferral(call[1].promise.value))
     ELSE Proceed(finalReport \o IanaErrorBlock(call[1].promise.value), NoReferral)

\* the handler resumes after await queryWhoisServer(serverToQueryNext, ...)
ResumeAfterNext ==
  /\ pc = "awaitNext"
  /\ call[2].promise.state # "pending"
  /\ UNCHANGED <<req, queries, call>>
  /\ LET q == QueryOf(2)
         block == IF call[2].promise.state = "resolved"
                  THEN NextResponseBlock(q.name, q.server, call[2].promise.value)
                  ELSE NextErrorBlock(q.name, q.server, call[2].promise.value)
     IN  /\ finalReport' = finalReport \o block
         /\ Send(200, Trim(finalReport \o block))

Next ==
  \/ HandleRequest
  \/ ResumeAfterIana
  \/ ResumeAfterNext
  \/ \E h \in Hops : Timeout(h)
  \/ \E h \in Hops : Connect(h)
  \/ \E h \in Hops : Data(h)
  \/ \E h \in Hops : End(h)
  \/ \E h \in Hops : Error(h)

\* one dotted-quad lookup and one name lookup
LiveInit ==
  /\ Init
  /\ req \in { [method |-> "GET", q |-> Str(<<"8", ".", "8", ".", "8", ".", "8">>)],
               [method |-> "GET", q |-> Str(<<"e", ".", "o", "r", "g">>)] }

\* an armed timer that is not cleared expires
LiveSpec ==
  LiveInit /\ [][Next]_vars /\ \A h \in Hops : WF_vars(Timeout(h))

Spec == Init /\ [][Next]_vars

\* ------------------------------------------- the revision marked CORRECTED
\* api/whois.js "(IANA referral, then specific RIR ... - CORRECTED)".  Its
\* queryWhoisServer, its hop blocks and its outer catch are those above; its
\* servers table, parseReferral and the choice of the next hop differ.
RIR_SERVERS_Corrected ==
  << [key |-> "ARIN",    server |-> "whois.arin.net"],
     [key |-> "RIPE",    server |-> "whois.ripe.net"],
     [key |-> "APNIC",   server |-> "whois.apnic.net"],
     [key |-> "LACNIC",  server |-> "whois.lacnic.net"],
     [key |-> "AFRINIC", server |-> "whois.afrinic.net"],
     [key |-> "whois.verisign-grs.com", server |-> "whois.verisign-grs.com"] >>

RirServerCorrected(key) ==
  LET i == CHOOSE j \in 1..Len(RIR_SERVERS_Corrected) : RIR_SERVERS_Corrected[j].key = key
  IN  RIR_SERVERS_Corrected[i].server

\* the body of the for-loop for one captured hostname; NoReferral = fall through
ReferralForCorrected(captured) ==
  LET server == ToLower(captured)
      hits == {i \in 1..Len(RIR_SERVERS_Corrected) :
                 ToLower(RIR_SERVERS_Corrected[i].server) = server}
  IN  IF hits # {}
      THEN LET i == CHOOSE k \in hits : \A m \in hits : k <= m
           IN  [name |-> RIR_SERVERS_Corrected[i].key,
                server |-> RIR_SERVERS_Corrected[i].server]
      ELSE IF server # ToLower(IANA_WHOIS_SERVER)
           THEN [name |-> server, server |-> server]
           ELSE NoReferral

parseReferralCorrected(ianaData) ==
  IF ianaData = <<>> THEN NoReferral
  ELSE LET w == FirstMatch(ianaData, "whois:")
           r == FirstMatch(ianaData, "refer:")
           fromWhois == IF w # "" THEN ReferralForCorrected(w) ELSE NoReferral
           fromRefer == IF r # "" THEN ReferralForCorrected(r) ELSE NoReferral
       IN  IF fromWhois # NoReferral THEN fromWhois ELSE fromRefer

SkipNoticeCorrected ==
  <<NL, Tok("Skipping IANA pre-lookup. Attempting general WHOIS", req.q.chars), NL, NL>>

DomainNoteCorrected(name, server) ==
  <<NL, Tok("Full WHOIS for domain", req.q.chars \o <<name, server>>), NL, NL>>

AuthoritativeNoticeCorrected ==
  <<NL, Tok("IANA response above is considered authoritative", req.q.chars), NL>>

\* serverToQuery / serverFriendlyName, starting from the RIPE default
SelectNextHopCorrected(authoritativeRir) ==
  IF authoritativeRir # NoReferral /\ authoritativeRir.server # ""
  THEN Selection(authoritativeRir.server, authoritativeRir.name, <<>>, <<>>)
  ELSE IF ~IsIp
  THEN IF req.q.kind # "string"
       THEN Selection("", "", <<>>, TypeErrorMessage)
       ELSE IF \/ EndsWith(LowerSeq(req.q.chars), <<".", "c", "o", "m">>)
               \/ EndsWith(LowerSeq(req.q.chars), <<".", "n", "e", "t">>)
            THEN Selection(RirServerCorrected("whois.verisign-grs.com"),
                           "Verisign (.com/.net)", <<>>, <<>>)
            ELSE Selection(RirServerCorrected("RIPE"), "RIPE NCC (Default)",
                           DomainNoteCorrected("RIPE NCC (Default)",
                                               RirServerCorrected("RIPE")), <<>>)
  ELSE Selection(RirServerCorrected("RIPE"), "RIPE NCC (Default)", <<>>, <<>>)

\* from the choice of the next hop to the second await or to the response
ProceedCorrected(report, authoritativeRir) ==
  LET sel == SelectNextHopCorrected(authoritativeRir)
      next == report \o sel.note
  IN  IF sel.thrown # <<>>
      THEN /\ finalReport' = next \o UnexpectedErrorBlock(sel.thrown)
           /\ Send(500, FailureBody(next, sel.thrown))
           /\ UNCHANGED <<queries, call>>
      ELSE IF ToLower(sel.server) # ToLower(IANA_WHOIS_SERVER) \/ ~IsIp
      THEN /\ finalReport' = next
           /\ StartQuery(2, sel.server, sel.name)
           /\ pc' = "awaitNext"
           /\ UNCHANGED <<status, contentType, body>>
      ELSE IF IsIp /\ authoritativeRir # NoReferral
      THEN /\ finalReport' = next \o AuthoritativeNoticeCorrected
           /\ Send(200, Trim(next \o AuthoritativeNoticeCorrected))
           /\ UNCHANGED <<queries, call>>
      ELSE /\ finalReport' = next
           /\ Send(200, Trim(next))
           /\ UNCHANGED <<queries, call>>

\* module.exports, from entry to the first await or to the response
HandleRequestCorrected ==
  /\ pc = "start"
  /\ UNCHANGED req
  /\ IF req.method = "OPTIONS"
     THEN /\ status' = 200
          /\ pc' = "done"
          /\ UNCHANGED <<finalReport, contentType, body, queries, call>>
     ELSE IF Falsy(req.q)
     THEN /\ Send(400, <<Tok("Query parameter q is required.", <<>>)>>)
          /\ UNCHANGED <<finalReport, queries, call>>
     ELSE IF IsIp
     THEN /\ finalReport' = Title
          /\ StartQuery(1, IANA_WHOIS_SERVER, "IANA")
          /\ pc' = "awaitIana"
          /\ UNCHANGED <<status, contentType, body>>
     ELSE ProceedCorrected(Title \o SkipNoticeCorrected, NoReferral)

\* the handler resumes after await queryWhoisServer(IANA_WHOIS_SERVER, ...)
ResumeAfterIanaCorrected ==
  /\ pc = "awaitIana"
  /\ call[1].promise.state # "pending"
  /\ UNCHANGED req
  /\ IF call[1].promise.state = "resolved"
     THEN ProceedCorrected(finalReport \o IanaResponseBlock(call[1].promise.value),
                           parseReferralCorrected(call[1].promise.value))
     ELSE ProceedCorrected(finalReport \o IanaErrorBlock(call[1].promise.value),
                           NoReferral)

\* the handler resumes after await queryWhoisServer(serverToQuery, ...)
ResumeAfterNextCorrected ==
  /\ pc = "awaitNext"
  /\ call[2].promise.state # "pending"
  /\ UNCHANGED <<req, queries, call>>
  /\ LET q == QueryOf(2)
         block == IF call[2].promise.state = "resolved"
                  THEN NextResponseBlock(q.name, q.server, call[2].promise.value)
                  ELSE NextErrorBlock(q.name, q.server, call[2].promise.value)
     IN  /\ finalReport' = finalReport \o block
         /\ Send(200, Trim(finalReport \o block))

NextCorrected ==
  \/ HandleRequestCorrected
  \/ ResumeAfterIanaCorrected
  \/ ResumeAfterNextCorrected
  \/ \E h \in Hops : Timeout(h)
  \/ \E h \in Hops : Connect(h)
  \/ \E h \in Hops : Data(h)
  \/ \E h \in Hops : End(h)
  \/ \E h \in Hops : Error(h)

SpecCorrected == Init /\ [][NextCorrected]_vars

\* ---------------------------------- the revision "With IANA referral attempt"
\* The first api/whois.js: queryWhoisServer without the operationTimedOut
\* flag, and a handler that reads the referral with the 'whois:' pattern
\* alone.  The connect callback and the 'data' handler are those above.
TimeoutMessageV1(h) == Tok("timeoutError", <<QueryOf(h).server, ":43">>)

\* the setTimeout callback: once connected it only destroys the socket
OnTimeoutV1(c, h) ==
  LET d == [c EXCEPT !.destroyed = TRUE, !.timeoutId = "fired"]
  IN  IF ~c.connected THEN Settle(d, "rejected", <<TimeoutMessageV1(h)>>) ELSE d

\* client.on('end')
OnEndV1(c) ==
  LET d == [ClearTimeout(c) EXCEPT !.endEmitted = TRUE, !.destroyed = TRUE]
  IN  Settle(d, "resolved", d.whoisData)

\* client.on('error')
OnErrorV1(c, msg) ==
  LET d == [ClearTimeout(c) EXCEPT !.errors = c.errors + 1, !.destroyed = TRUE]
  IN  Settle(d, "rejected", <<Tok("error", <<msg>>)>>)

TimeoutV1(h) ==
  /\ call[h].timeoutId = "armed"
  /\ SocketStep(h, OnTimeoutV1(call[h], h))

EndV1(h) ==
  /\ call[h].started
  /\ call[h].connected
  /\ ~call[h].endEmitted
  /\ SocketStep(h, OnEndV1(call[h]))

ErrorV1(h) ==
  /\ call[h].started
  /\ call[h].errors < MaxErrors
  /\ \E msg \in ErrorMessages : SocketStep(h, OnErrorV1(call[h], msg))

IanaResponseBlockV1(ianaData) ==
  <<NL, Tok("IANA Response", <<>>), NL>> \o ianaData \o <<NL, Rule, NL, NL>>

IanaErrorBlockV1(message) ==
  <<NL, Tok("Error querying IANA", <<>>), NL>> \o message \o <<NL, Rule, NL, NL>>

\* authoritativeServer as the handler left it after the IANA hop ("" = null)
AuthoritativeServerV1 ==
  IF IsIp /\ call[1].promise.state = "resolved"
  THEN FirstMatch(call[1].promise.value, "whois:")
  ELSE ""

\* the banner chosen after the second query returned
NextBannerV1(serverToQuery) ==
  IF AuthoritativeServerV1 # "" /\ ToLower(AuthoritativeServerV1) # ToLower(serverToQuery)
  THEN <<NL, Tok("Response from (referred by IANA)", <<serverToQuery>>), NL>>
  ELSE IF AuthoritativeServerV1 = "" /\ IsIp
  THEN <<NL, Tok("Response from (default/fallback for IP)", <<serverToQuery>>), NL>>
  ELSE IF ~IsIp
  THEN <<NL, Tok("Response from (attempt for domain/non-IP)", <<serverToQuery>>), NL>>
  ELSE <<>>

NextErrorBlockV1(serverToQuery, message) ==
  <<NL, Tok("Error querying", <<serverToQuery>>), NL>> \o message \o <<NL, Rule, NL>>

\* from serverToQuery to the second await or to the response
ProceedV1(report, authoritativeServer) ==
  LET serverToQuery == IF authoritativeServer # ""
                       THEN authoritativeServer ELSE "whois.ripe.net"
      shouldQuerySpecificRir ==
        ~(authoritativeServer # ""
            /\ ToLower(authoritativeServer) = ToLower(IANA_WHOIS_SERVER))
  IN  /\ finalReport' = report
      /\ IF shouldQuerySpecificRir \/ ~IsIp \/ authoritativeServer = ""
         THEN /\ StartQuery(2, serverToQuery, "")
              /\ pc' = "awaitNext"
              /\ UNCHANGED <<status, contentType, body>>
         ELSE /\ Send(200, Trim(report))
              /\ UNCHANGED <<queries, call>>

\* module.exports, from entry to the first await
HandleRequestV1 ==
  /\ pc = "start"
  /\ UNCHANGED req
  /\ IF req.method = "OPTIONS"
     THEN /\ status' = 200
          /\ pc' = "done"
          /\ UNCHANGED <<finalReport, contentType, body, queries, call>>
     ELSE IF Falsy(req.q)
     THEN /\ Send(400, <<Tok("Query parameter q is required.", <<>>)>>)
          /\ UNCHANGED <<finalReport, queries, call>>
     ELSE IF IsIp
     THEN /\ finalReport' = Title
          /\ StartQuery(1, IANA_WHOIS_SERVER, "")
          /\ pc' = "awaitIana"
          /\ UNCHANGED <<status, contentType, body>>
     ELSE ProceedV1(Title, "")

\* the handler resumes after await queryWhoisServer(IANA_WHOIS_SERVER, ...)
ResumeAfterIanaV1 ==
  /\ pc = "awaitIana"
  /\ call[1].promise.state # "pending"
  /\ UNCHANGED req
  /\ IF call[1].promise.state = "resolved"
     THEN ProceedV1(finalReport \o IanaResponseBlockV1(call[1].promise.value),
                    FirstMatch(call[1].promise.value, "whois:"))
     ELSE ProceedV1(finalReport \o IanaErrorBlockV1(call[1].promise.value), "")

\* the handler resumes after await queryWhoisServer(serverToQuery, ...)
ResumeAfterNextV1 ==
  /\ pc = "awaitNext"
  /\ call[2].promise.state # "pending"
  /\ UNCHANGED <<req, queries, call>>
  /\ LET q == QueryOf(2)
         block == IF call[2].promise.state = "resolved"
                  THEN NextBannerV1(q.server) \o call[2].promise.value \o <<NL, Rule, NL>>
                  ELSE NextErrorBlockV1(q.server, call[2].promise.value)
     IN  /\ finalReport' = finalReport \o block
         /\ Send(200, Trim(finalReport \o block))

NextV1 ==
  \/ HandleRequestV1
  \/ ResumeAfterIanaV1
  \/ ResumeAfterNextV1
  \/ \E h \in Hops : TimeoutV1(h)
  \/ \E h \in Hops : Connect(h)
  \/ \E h \in Hops : Data(h)
  \/ \E h \in Hops : EndV1(h)
  \/ \E h \in Hops : ErrorV1(h)

SpecV1 == Init /\ [][NextV1]_vars

\* ------------------ the revision "IANA referral, then specific RIR" (second)
\* The second api/whois.js: queryWhoisServer and the blocks of the report are
\* those of the first section.  Its handler initialises serverToQuery from
\* RIPE_WHOIS_SERVER, a name the module never declares: evaluating it throws
\* a ReferenceError inside the outer try, after the IANA section or the skip
\* notice was appended and before any second query; the result of
\* parseReferral is never used.
ReferenceErrorMessage == <<Tok("error", <<"RIPE_WHOIS_SERVER is not defined">>)>>

SkipNoticeV2 ==
  <<NL, Tok("Skipping IANA pre-lookup. Attempting general WHOIS", req.q.chars), NL, NL>>

\* `let serverToQuery = RIPE_WHOIS_SERVER` and the outer catch
ProceedV2(report) ==
  /\ finalReport' = report \o UnexpectedErrorBlock(ReferenceErrorMessage)
  /\ Send(500, FailureBody(report, ReferenceErrorMessage))
  /\ UNCHANGED <<queries, call>>

\* module.exports, from entry to the first await or to the response
HandleRequestV2 ==
  /\ pc = "start"
  /\ UNCHANGED req
  /\ IF req.method = "OPTIONS"
     THEN /\ status' = 200
          /\ pc' = "done"
          /\ UNCHANGED <<finalReport, contentType, body, queries, call>>
     ELSE IF Falsy(req.q)
     THEN /\ Send(400, <<Tok("Query parameter q is required.", <<>>)>>)
          /\ UNCHANGED <<finalReport, queries, call>>
     ELSE IF IsIp
     THEN /\ finalReport' = Title
          /\ StartQuery(1, IANA_WHOIS_SERVER, "IANA")
          /\ pc' = "awaitIana"
          /\ UNCHANGED <<status, contentType, body>>
     ELSE ProceedV2(Title \o SkipNoticeV2)

\* the handler resumes after await queryWhoisServer(IANA_WHOIS_SERVER, ...)
ResumeAfterIanaV2 ==
  /\ pc = "awaitIana"
  /\ call[1].promise.state # "pending"
  /\ UNCHANGED req
  /\ IF call[1].promise.state = "resolved"
     THEN ProceedV2(finalReport \o IanaResponseBlock(call[1].promise.value))
     ELSE ProceedV2(finalReport \o IanaErrorBlock(call[1].promise.value))

NextV2 ==
  \/ HandleRequestV2
  \/ ResumeAfterIanaV2
  \/ Timeout(1)
  \/ Connect(1)
  \/ Data(1)
  \/ End(1)
  \/ Error(1)

SpecV2 == Init /\ [][NextV2]_vars

\* ================================================================== claims
Settled(h) == call[h].promise.state # "pending"

TimerFires(h) == call[h].timeoutId = "armed" /\ call'[h].timeoutId = "fired"

TimeoutRejection(h, p) == p.state = "rejected" /\ p.value = <<TimeoutMessage(h)>>

\* four groups of one to three digits separated by dots
DottedQuad(cs) ==
  \E a, b, c, d \in 1..3 :
    /\ Len(cs) = a + b + c + d + 3
    /\ \A i \in 1..Len(cs) :
         IF i \in {a + 1, a + b + 2, a + b + c + 3}
         THEN cs[i] = "."
         ELSE cs[i] \in Digits

\* the request is a lookup: not a preflight, and q is present
Lookup == req.method # "OPTIONS" /\ ~Falsy(req.q)

SameHost(a, b) == ToLower(a) = ToLower(b)

QueriesTo(server) == {i \in 1..Len(queries) : SameHost(queries[i].server, server)}

HasTok(text, t) == \E i \in 1..Len(text) : text[i].t = t

\* the hostname the response text refers to: the 'whois:' capture, else 'refer:'
ReferredHost(text) ==
  IF FirstMatch(text, "whois:") # ""
  THEN FirstMatch(text, "whois:")
  ELSE FirstMatch(text, "refer:")

IanaSelfReferred ==
  /\ call[1].promise.state = "resolved"
  /\ \E kw \in {"whois:", "refer:"} :
       SameHost(FirstMatch(call[1].promise.value, kw), IANA_WHOIS_SERVER)

\* C1: a query's promise is settled at most once, into a rejection, a
\* resolution with the complete text or a resolution with the text plus the
\* timeout notice, and once settled neither the outcome nor its value changes,
\* whatever events are delivered afterwards.
C1_SingleSettlement ==
  /\ [](\A h \in Hops :
          /\ call[h].promise.state \in {"pending", "resolved", "rejected"}
          /\ call[h].promise.state = "resolved" =>
               IF call[h].operationTimedOut
               THEN call[h].promise.value = call[h].whoisData \o TimeoutNotice(h)
               ELSE call[h].promise.value = call[h].whoisData
          /\ call[h].promise.state = "rejected" =>
               /\ Len(call[h].promise.value) = 1
               /\ call[h].promise.value[1].t \in {"error", "timeoutError"})
  /\ [][\A h \in Hops : Settled(h) => call'[h].promise = call[h].promise]_vars

\* a settled query on which resolve or reject was invoked again
C1_Witness ==
  \E h \in Hops : Settled(h) /\ call[h].settleCalls >= 2

\* C2: when the timer expires on a connected query (no end or error was
\* handled, so the timer is still armed), the query resolves with the text
\* accumulated so far followed by the timeout notice.
C2_PartialOnTimeout ==
  [][\A h \in Hops :
       TimerFires(h) /\ call[h].connected =>
         call'[h].promise =
           [state |-> "resolved", value |-> call[h].whoisData \o TimeoutNotice(h)]]_vars

C2_Witness ==
  \E h \in Hops :
    /\ call[h].operationTimedOut
    /\ call[h].connected
    /\ call[h].chunks > 0
    /\ call[h].promise.state = "resolved"

\* C3: when the timer expires before the connect callback ran the query is
\* rejected with the timeout error, and a query is rejected with the timeout
\* error only by a timer that expired before the connect callback ran.
C3_TimeoutBeforeConnect ==
  /\ [][\A h \in Hops :
          TimerFires(h) /\ ~call[h].connected =>
            TimeoutRejection(h, call'[h].promise)]_vars
  /\ [][\A h \in Hops :
          ~Settled(h) /\ call'[h].started /\ TimeoutRejection(h, call'[h].promise) =>
            TimerFires(h) /\ ~call[h].connected]_vars
  /\ [](\A h \in Hops :
          call[h].operationTimedOut /\ ~call[h].connected =>
            call[h].promise.state = "rejected")

C3_Witness ==
  \E h \in Hops :
    /\ call[h].operationTimedOut
    /\ ~call[h].connected
    /\ TimeoutRejection(h, call[h].promise)

\* C4: a finished lookup of a dotted quad has queried the IANA server exactly
\* once and at most one other server, and it has queried no other server only
\* if the IANA response referred to the IANA server itself.
C4_IpQueryCount ==
  Lookup /\ DottedQuad(req.q.chars) =>
    /\ Cardinality(QueriesTo(IANA_WHOIS_SERVER)) <= 1
    /\ Len(queries) <= 2
    /\ pc # "start" => Cardinality(QueriesTo(IANA_WHOIS_SERVER)) = 1
    /\ pc = "done" /\ Len(queries) = 1 => IanaSelfReferred

C4_Witness ==
  /\ Lookup /\ DottedQuad(req.q.chars)
  /\ pc = "done"
  /\ Len(queries) = 1
  /\ IanaSelfReferred

\* C5: a request whose q is not a dotted quad never queries the IANA server.
C5_NonIpSkipsIana ==
  ~DottedQuad(req.q.chars) => QueriesTo(IANA_WHOIS_SERVER) = {}

C5_Witness ==
  /\ ~DottedQuad(req.q.chars)
  /\ pc = "done"
  /\ Len(queries) = 1
  /\ Settled(2)

\* C6: when the IANA response of a dotted-quad lookup refers to the IANA host
\* itself, no second query is issued and the request finishes with status 200
\* and a report that holds the authoritative notice and no next-hop block.
C6_SelfReferral ==
  /\ Lookup /\ DottedQuad(req.q.chars)
  /\ call[1].promise.state = "resolved"
  /\ SameHost(ReferredHost(call[1].promise.value), IANA_WHOIS_SERVER)
  => /\ ~call[2].started
     /\ Len(queries) = 1
     /\ pc = "done" =>
          /\ status = 200
          /\ HasTok(body, "IANA response above is considered authoritative")
          /\ ~HasTok(body, "Response from")
          /\ ~HasTok(body, "Error Querying")

C6_Witness ==
  /\ pc = "done"
  /\ call[1].promise.state = "resolved"
  /\ SameHost(ReferredHost(call[1].promise.value), IANA_WHOIS_SERVER)
  /\ HasTok(body, "IANA response above is considered authoritative")

\* the text holds the banner t followed, after the line break, by the message
HasErrorSection(text, t, message) ==
  \E i \in 1..(Len(text) - 2) :
    /\ text[i].t = t
    /\ <<text[i + 2]>> = message

\* C7: a lookup with a string q finishes with status 200 and the trimmed
\* report, whatever the outcomes of its hops; a failed IANA hop leaves an
\* 'Error Querying IANA' section with the error message and is followed by
\* the next hop, a failed next hop leaves an 'Error Querying' section with its
\* error message.
C7_HopFailureContained ==
  Lookup /\ req.q.kind = "string" =>
    /\ status \in {0, 200}
    /\ status = 0 <=> pc # "done"
    /\ call[1].promise.state = "rejected" /\ pc \in {"awaitNext", "done"} =>
         /\ HasErrorSection(finalReport, "Error Querying IANA", call[1].promise.value)
         /\ call[2].started
    /\ pc = "done" =>
         /\ body = Trim(finalReport)
         /\ contentType = PlainText
         /\ call[1].promise.state = "rejected" =>
              HasErrorSection(body, "Error Querying IANA", call[1].promise.value)
         /\ call[2].promise.state = "rejected" =>
              HasErrorSection(body, "Error Querying", call[2].promise.value)

C7_Witness ==
  /\ pc = "done"
  /\ status = 200
  /\ call[1].promise.state = "rejected"
  /\ call[2].promise.state = "rejected"

\* C8: a settled query has a destroyed socket: the handler that settles the
\* query (end, error, timer) destroys the socket before it returns.
C8_SocketReleased ==
  \A h \in Hops : Settled(h) => call[h].destroyed

C8_Witness ==
  \E h \in Hops :
    /\ call[h].promise.state = "resolved"
    /\ ~call[h].operationTimedOut
    /\ call[h].endEmitted
    /\ call[h].destroyed

\* C9: a request issues at most two queries, never queries again a server
\* whose query failed, and issues no query once the response is sent.
C9_NoRetry ==
  /\ [](/\ Len(queries) <= 2
        /\ \A i, j \in 1..Len(queries) :
             i < j /\ call[queries[i].hop].promise.state = "rejected" =>
               ~SameHost(queries[i].server, queries[j].server))
  /\ [][pc = "done" =>
          /\ queries' = queries
          /\ \A h \in Hops : call'[h].started = call[h].started]_vars

C9_Witness ==
  /\ pc = "done"
  /\ Len(queries) = 2
  /\ call[1].promise.state = "rejected"
  /\ call[2].endEmitted

Open(h) == call[h].started /\ ~call[h].destroyed

\* C10: the next-hop query is started only after the IANA query has settled,
\* its timer is no longer armed and its socket is destroyed; a request never
\* has two open sockets or two pending queries.
C10_Sequential ==
  /\ call[1].started /\ call[2].started =>
       /\ Settled(1)
       /\ call[1].destroyed
       /\ call[1].timeoutId # "armed"
  /\ ~(Open(1) /\ Open(2))
  /\ ~(call[1].started /\ ~Settled(1) /\ call[2].started /\ ~Settled(2))

C10_Witness ==
  /\ call[1].started
  /\ Open(2)
  /\ call[2].connected
  /\ ~Settled(2)


\* the positions in text of the tokens whose kind is in kinds
Positions(text, kinds) == {i \in 1..Len(text) : text[i].t \in kinds}

IanaSectionKinds ==
  {"IANA Response", "Error Querying IANA", "Skipping IANA pre-lookup"}

SecondSectionKinds ==
  {"Response from", "Error Querying",
   "IANA response above is considered authoritative"}

\* C11: the report sent for a lookup with a string q holds exactly one IANA
\* section banner (IANA response, IANA error or skip notice) and exactly one
\* second section banner (next-hop response, next-hop error or authoritative
\* notice), the IANA one first; while the report is built the second never
\* appears without the first.
C11_SectionOrder ==
  Lookup /\ req.q.kind = "string" =>
    /\ Positions(finalReport, SecondSectionKinds) # {} =>
         Positions(finalReport, IanaSectionKinds) # {}
    /\ pc = "done" =>
         /\ Cardinality(Positions(body, IanaSectionKinds)) = 1
         /\ Cardinality(Positions(body, SecondSectionKinds)) = 1
         /\ \A i \in Positions(body, IanaSectionKinds) :
              \A j \in Positions(body, SecondSectionKinds) : i < j
         /\ body[1].t = "title"

\* a non-IP lookup answered with the skip notice and a next-hop block
C11_Witness ==
  /\ pc = "done"
  /\ HasTok(body, "Skipping IANA pre-lookup")
  /\ HasTok(body, "Response from")


\* the canonical names of the registries, by WHOIS hostname
RirNameOf ==
  [h \in {"whois.arin.net", "whois.ripe.net", "whois.apnic.net",
          "whois.lacnic.net", "whois.afrinic.net"} |->
     CASE h = "whois.arin.net" -> "ARIN"
       [] h = "whois.ripe.net" -> "RIPE"
       [] h = "whois.apnic.net" -> "APNIC"
       [] h = "whois.lacnic.net" -> "LACNIC"
       [] OTHER -> "AFRINIC"]

\* C12: when the IANA response of a dotted-quad lookup refers to a host other
\* than the IANA host, the next-hop query goes to that host (lower-cased) and
\* no other; for the host of a known registry the query carries the
\* registry's canonical name, and when the next hop answers the report holds
\* the 'IANA Response' section followed by the 'Response from <name>' section.
C12_ReferredNextHop ==
  /\ Lookup /\ DottedQuad(req.q.chars)
  /\ pc \in {"awaitNext", "done"}
  /\ call[1].promise.state = "resolved"
  /\ ReferredHost(call[1].promise.value) # ""
  /\ ~SameHost(ReferredHost(call[1].promise.value), IANA_WHOIS_SERVER)
  => LET host == ToLower(ReferredHost(call[1].promise.value))
     IN  /\ Len(queries) = 2
         /\ queries[2].server = host
         /\ queries[2].text = req.q.chars
         /\ host \in DOMAIN RirNameOf => queries[2].name = RirNameOf[host]
         /\ host \notin DOMAIN RirNameOf => queries[2].name = host
         /\ pc = "done" /\ call[2].promise.state = "resolved" =>
              \E i, j \in 1..Len(body) :
                /\ i < j
                /\ body[i].t = "IANA Response"
                /\ body[j] = Tok("Response from", <<queries[2].name, host>>)

\* 'refer: whois.arin.net' answered by ARIN
C12_Witness ==
  /\ pc = "done"
  /\ HasTok(body, "IANA Response")
  /\ \E j \in 1..Len(body) :
       body[j] = Tok("Response from", <<"ARIN", "whois.arin.net">>)


\* cs ends with ".com" or ".net" in any mix of cases
ComOrNet(cs) ==
  LET n == Len(cs)
  IN  /\ n >= 4
      /\ cs[n - 3] = "."
      /\ \/ cs[n - 2] \in {"c", "C"} /\ cs[n - 1] \in {"o", "O"} /\ cs[n] \in {"m", "M"}
         \/ cs[n - 2] \in {"n", "N"} /\ cs[n - 1] \in {"e", "E"} /\ cs[n] \in {"t", "T"}

\* C13: a lookup whose string q is no dotted quad queries one server: the
\* Verisign server exactly when q ends with '.com' or '.net' in any case, the
\* RIPE server otherwise; in the RIPE case the report holds the skip notice,
\* the note about the fallback attempt and one section labeled with RIPE.
C13_NonIpServer ==
  /\ Lookup /\ req.q.kind = "string" /\ ~DottedQuad(req.q.chars)
  /\ pc \in {"awaitNext", "done"}
  => /\ Len(queries) = 1
     /\ queries[1].server = "whois.verisign-grs.com" <=> ComOrNet(req.q.chars)
     /\ ~ComOrNet(req.q.chars) =>
          /\ queries[1].server = "whois.ripe.net"
          /\ HasTok(finalReport, "Skipping IANA pre-lookup")
          /\ HasTok(finalReport, "Attempting query for non-IP")
          /\ pc = "done" =>
               /\ HasTok(body, "Skipping IANA pre-lookup")
               /\ HasTok(body, "Attempting query for non-IP")
               /\ Cardinality(Positions(body, {"Response from", "Error Querying"})) = 1
               /\ \A i \in Positions(body, {"Response from", "Error Querying"}) :
                    body[i].s = <<"RIPE NCC (Default for non-IP)", "whois.ripe.net">>

\* a name under .COM in capitals answered by the Verisign server
C13_Witness ==
  /\ pc = "done"
  /\ req.q.chars = <<"a", ".", "C", "O", "M">>
  /\ Len(queries) = 1
  /\ queries[1].server = "whois.verisign-grs.com"
  /\ HasTok(body, "Response from")


\* C15: a lookup whose q is no string raises an exception outside the hop
\* try blocks and is answered 500 with a body that starts with the sections
\* appended before the exception (header and skip notice) and holds the
\* unexpected-error block; no request with a string q is answered 500,
\* whatever its hops did.
C15_UnexpectedError ==
  /\ status = 500 => Lookup /\ req.q.kind # "string"
  /\ Lookup /\ req.q.kind = "array" /\ pc = "done" =>
       /\ status = 500
       /\ contentType = PlainText
       /\ Len(body) >= Len(Title \o SkipNotice)
       /\ SubSeq(body, 1, Len(Title \o SkipNotice)) = Title \o SkipNotice
       /\ HasTok(body, "Unexpected Server Error")
       /\ body[Len(body)] = InternalErrorTail[Len(InternalErrorTail)]
       /\ queries = <<>>

C15_Witness ==
  /\ pc = "done"
  /\ status = 500
  /\ HasTok(body, "Skipping IANA pre-lookup")


\* q is absent or the empty string
QMissingOrEmpty == req.q.kind = "missing" \/ req.q.chars = <<>>

\* C16: a preflight request, or a request with q absent or empty, opens no
\* socket, issues no query and builds no report; the preflight is answered 200
\* with no body, the other 400 with a plain-text message.
C16_RequestValidation ==
  req.method = "OPTIONS" \/ QMissingOrEmpty =>
    /\ queries = <<>>
    /\ \A h \in Hops : ~call[h].started
    /\ finalReport = <<>>
    /\ pc \in {"start", "done"}
    /\ pc = "done" =>
         IF req.method = "OPTIONS"
         THEN status = 200 /\ body = <<>> /\ contentType = ""
         ELSE /\ status = 400
              /\ contentType = PlainText
              /\ Len(body) = 1
              /\ body[1].t = "Query parameter q is required."

\* the empty string answered 400
C16_Witness ==
  /\ pc = "done"
  /\ req.method = "GET"
  /\ req.q.kind = "string"
  /\ req.q.chars = <<>>
  /\ status = 400


\* the handler has applied parseReferral to a resolved IANA response
IanaParsed ==
  /\ Lookup /\ DottedQuad(req.q.chars)
  /\ pc \in {"awaitNext", "done"}
  /\ call[1].promise.state = "resolved"

\* C17 as stated: parseReferral returns none when the captured hostname is the
\* IANA hostname.
C17_SelfReferralIsNone ==
  IanaParsed /\ SameHost(ReferredHost(call[1].promise.value), IANA_WHOIS_SERVER) =>
    parseReferral(call[1].promise.value) = NoReferral

\* C17 as amended: parseReferral returns the table's IANA entry when the
\* captured hostname is the IANA hostname in any case, and none when neither
\* pattern matches.
C17_SelfReferralIsIanaEntry ==
  IanaParsed =>
    /\ SameHost(ReferredHost(call[1].promise.value), IANA_WHOIS_SERVER) =>
         parseReferral(call[1].promise.value) =
           [name |-> "IANA", server |-> "whois.iana.org"]
    /\ ReferredHost(call[1].promise.value) = "" =>
         parseReferral(call[1].promise.value) = NoReferral

\* a response that names the IANA host in capitals, parsed by the handler
C17_Witness ==
  /\ IanaParsed
  /\ ReferredHost(call[1].promise.value) = "WHOIS.IANA.ORG"
  /\ parseReferral(call[1].promise.value).name = "IANA"


\* C19: a started query that is still pending has its timer armed, and under
\* the fairness of the timer every started query is eventually settled, also
\* when the peer never accepts, never sends and never closes.
C19_EventuallySettles ==
  /\ [](\A h \in Hops :
          call[h].started /\ ~Settled(h) => call[h].timeoutId = "armed")
  /\ \A h \in Hops : call[h].started ~> Settled(h)

\* a peer that accepted the connection, then sent nothing and never closed
C19_Witness ==
  \E h \in Hops :
    /\ call[h].connected
    /\ call[h].chunks = 0
    /\ ~call[h].endEmitted
    /\ call[h].errors = 0
    /\ call[h].operationTimedOut
    /\ Settled(h)


\* C20 as stated: resolve or reject is never invoked on a query that has
\* already settled, whatever the order of the timer, end and error events.
C20_GuardedSettlement ==
  [][\A h \in Hops :
       call'[h].settleCalls > call[h].settleCalls => ~Settled(h)]_vars



\* C21: every chunk received is appended at the end of the accumulated text,
\* which nothing else changes; when the peer closes while the timer is still
\* armed and no error occurred, the query resolves with exactly that text,
\* without the truncation notice, the timer is cancelled, and what was
\* written to the socket is the query text followed by CRLF, once.
C21_CompleteOnEnd ==
  [][\A h \in Hops :
       /\ call'[h].chunks = call[h].chunks + 1 =>
            \E chunk \in ChunksOf(QueryOf(h).server) :
              call'[h].whoisData = call[h].whoisData \o chunk
       /\ call[h].started /\ call'[h].chunks = call[h].chunks =>
            call'[h].whoisData = call[h].whoisData
       /\ /\ ~call[h].endEmitted /\ call'[h].endEmitted
          /\ call[h].timeoutId = "armed" /\ call[h].errors = 0
          => /\ call'[h].promise = [state |-> "resolved", value |-> call[h].whoisData]
             /\ ~HasTok(call'[h].promise.value, "timeoutNotice")
             /\ call'[h].timeoutId = "cleared"
             /\ call[h].written = <<QueryOf(h).text \o <<"\r\n">>>>]_vars

\* two different chunks, then a clean close
C21_Witness ==
  /\ call[1].endEmitted
  /\ call[1].chunks = 2
  /\ call[1].errors = 0
  /\ call[1].timeoutId = "cleared"
  /\ call[1].promise.state = "resolved"
  /\ call[1].promise.value =
       <<KwRefer, WS, Host("whois.arin.net"), NL, KwWhoisCap, WS, Host("WHOIS.IANA.ORG"), NL>>
  /\ call[1].written = <<req.q.chars \o <<"\r\n">>>>



\* C22: an error event on a query that is still pending (its timer armed,
\* connected or not) rejects it with that error alone, none of the
\* accumulated text being delivered, destroys the socket and cancels the
\* timer; a cancelled timer stays cancelled and never marks the query as
\* timed out.
C22_ErrorRejects ==
  [][\A h \in Hops :
       /\ /\ call'[h].errors > call[h].errors
          /\ ~Settled(h) /\ call[h].timeoutId = "armed"
          => /\ \E msg \in ErrorMessages :
                  call'[h].promise =
                    [state |-> "rejected", value |-> <<Tok("error", <<msg>>)>>]
             /\ call'[h].timeoutId = "cleared"
             /\ call'[h].destroyed
       /\ call[h].timeoutId = "cleared" =>
            /\ call'[h].timeoutId = "cleared"
            /\ call'[h].operationTimedOut = call[h].operationTimedOut
            /\ ~call[h].operationTimedOut]_vars

\* a reset after the connection was made and a chunk had arrived
C22_Witness ==
  \E h \in Hops :
    /\ call[h].connected
    /\ call[h].chunks = 1
    /\ ~call[h].endEmitted
    /\ call[h].errors = 1
    /\ call[h].timeoutId = "cleared"
    /\ call[h].promise = [state |-> "rejected", value |-> <<Tok("error", <<"ECONNRESET">>)>>]



\* C23: when the IANA hop of a dotted-quad lookup is rejected (error, or
\* timeout before connect) or resolves with a text in which neither pattern
\* matches, the report holds the IANA error block, respectively the IANA
\* response block, followed by the one note that IANA gave no specific
\* referral, and the RIPE server is queried as the one next hop.
C23_IpFallbackToRipe ==
  /\ Lookup /\ DottedQuad(req.q.chars)
  /\ pc \in {"awaitNext", "done"}
  /\ \/ call[1].promise.state = "rejected"
     \/ /\ call[1].promise.state = "resolved"
        /\ ReferredHost(call[1].promise.value) = ""
  => LET block == IF call[1].promise.state = "rejected"
                  THEN "Error Querying IANA" ELSE "IANA Response"
         notes == Positions(finalReport, {"No specific RIR referral from IANA"})
     IN  /\ Len(queries) = 2
         /\ queries[2] = [hop |-> 2, server |-> "whois.ripe.net", port |-> 43,
                          text |-> req.q.chars, name |-> "RIPE NCC (Default/Fallback)"]
         /\ Cardinality(Positions(finalReport, IanaSectionKinds)) = 1
         /\ Cardinality(notes) = 1
         /\ \A i \in Positions(finalReport, IanaSectionKinds) :
              /\ finalReport[i].t = block
              /\ \A j \in notes :
                   /\ i < j
                   /\ finalReport[j].s = <<"RIPE NCC (Default/Fallback)">>
         /\ ~HasTok(finalReport, "IANA response above is considered authoritative")

\* the IANA hop timed out before it connected and RIPE answered
C23_Witness ==
  /\ pc = "done"
  /\ ~call[1].connected
  /\ TimeoutRejection(1, call[1].promise)
  /\ HasTok(body, "Error Querying IANA")
  /\ HasTok(body, "No specific RIR referral from IANA")
  /\ \E j \in 1..Len(body) :
       body[j] = Tok("Response from", <<"RIPE NCC (Default/Fallback)", "whois.ripe.net">>)



\* C24: whenever the 'whois:' pattern matches the IANA response, the referral
\* is the one for the hostname it captured, wherever a 'refer:' line stands
\* in the text, and the handler acts on that hostname; the hostname captured
\* by 'refer:' is used only when 'whois:' does not match.
C24_WhoisBeforeRefer ==
  IanaParsed =>
    LET text == call[1].promise.value
        w == FirstMatch(text, "whois:")
        r == FirstMatch(text, "refer:")
    IN  /\ w # "" =>
             /\ parseReferral(text).server = ToLower(w)
             /\ IF SameHost(w, IANA_WHOIS_SERVER)
                THEN Len(queries) = 1
                ELSE Len(queries) = 2 /\ queries[2].server = ToLower(w)
        /\ w = "" /\ r # "" =>
             /\ parseReferral(text).server = ToLower(r)
             /\ Len(queries) = 2 /\ queries[2].server = ToLower(r)

\* a 'refer:' line naming ARIN followed by a 'Whois:' line naming IANA: the
\* 'Whois:' line decides, and no second query is made
C24_Witness ==
  /\ IanaParsed
  /\ pc = "done"
  /\ FirstMatch(call[1].promise.value, "refer:") = "whois.arin.net"
  /\ FirstMatch(call[1].promise.value, "whois:") = "WHOIS.IANA.ORG"
  /\ call[1].promise.value[1] = KwRefer
  /\ parseReferral(call[1].promise.value).name = "IANA"
  /\ Len(queries) = 1



\* the hostnames of the servers table
TableHosts ==
  DOMAIN RirNameOf \cup {"whois.iana.org", "whois.verisign-grs.com"}

\* C25: a captured hostname that is, lower-cased, no server of the table is
\* returned lower-cased as both the name and the server of the referral, and
\* the next hop is queried under that name at that server; a captured
\* hostname that equals a server of the table in any case is returned as the
\* key of that entry and the hostname as written in the table.
C25_ReferralIdentity ==
  IanaParsed /\ ReferredHost(call[1].promise.value) # "" =>
    LET low == ToLower(ReferredHost(call[1].promise.value))
        ref == parseReferral(call[1].promise.value)
    IN  /\ low \notin TableHosts =>
             /\ ref = [name |-> low, server |-> low]
             /\ Len(queries) = 2
             /\ queries[2].server = low /\ queries[2].name = low
        /\ low \in DOMAIN RirNameOf =>
             ref = [name |-> RirNameOf[low], server |-> low]
        /\ low = "whois.iana.org" =>
             ref = [name |-> "IANA", server |-> "whois.iana.org"]

\* 'whois:' followed by the host of a national registry written with capitals
C25_Witness ==
  /\ IanaParsed
  /\ ReferredHost(call[1].promise.value) = "Whois.NIC.example"
  /\ Len(queries) = 2
  /\ queries[2].server = "whois.nic.example"
  /\ queries[2].name = "whois.nic.example"



\* C29: an IANA hop cut short by its timer after connect resolves with the
\* accumulated text followed by the truncation notice, and the handler
\* treats it as a success: the text stands, notice included, under the
\* 'IANA Response' banner with no IANA error block, and the next hop is the
\* one the referral rules give for that text: none when it refers to IANA,
\* the referred host when it refers elsewhere, RIPE when nothing matches.
C29_PartialIanaIsSuccess ==
  /\ Lookup /\ DottedQuad(req.q.chars)
  /\ pc \in {"awaitNext", "done"}
  /\ call[1].operationTimedOut /\ call[1].connected
  => LET text == call[1].whoisData \o TimeoutNotice(1)
         host == ReferredHost(text)
     IN  /\ call[1].promise = [state |-> "resolved", value |-> text]
         /\ HasTok(finalReport, "IANA Response")
         /\ HasTok(finalReport, "timeoutNotice")
         /\ ~HasTok(finalReport, "Error Querying IANA")
         /\ host = "" =>
              Len(queries) = 2 /\ queries[2].server = "whois.ripe.net"
         /\ host # "" /\ SameHost(host, IANA_WHOIS_SERVER) =>
              /\ Len(queries) = 1
              /\ HasTok(finalReport, "IANA response above is considered authoritative")
         /\ host # "" /\ ~SameHost(host, IANA_WHOIS_SERVER) =>
              Len(queries) = 2 /\ queries[2].server = ToLower(host)

\* the timer cut the IANA response after its 'refer:' line; ARIN answered
C29_Witness ==
  /\ pc = "done"
  /\ call[1].operationTimedOut
  /\ call[1].whoisData = <<KwRefer, WS, Host("whois.arin.net"), NL>>
  /\ HasTok(body, "timeoutNotice")
  /\ Len(queries) = 2
  /\ queries[2].server = "whois.arin.net"
  /\ call[2].promise.state = "resolved"



\* C26 as stated, for the revision marked CORRECTED: when the IANA response
\* of a dotted-quad lookup refers to the IANA host itself, no second query
\* is issued and the report holds the notice that the IANA response is
\* authoritative.
C26_SelfReferralCorrected ==
  /\ Lookup /\ DottedQuad(req.q.chars)
  /\ pc \in {"awaitNext", "done"}
  /\ call[1].promise.state = "resolved"
  /\ SameHost(ReferredHost(call[1].promise.value), IANA_WHOIS_SERVER)
  => /\ Len(queries) = 1
     /\ HasTok(finalReport, "IANA response above is considered authoritative")



\* C27 as stated, for the revision "With IANA referral attempt": when the
\* timer of a query expires after the connection was made and before the
\* peer closed, the socket is destroyed and the query is resolved with the
\* text accumulated so far.
C27_PartialOnTimeoutV1 ==
  [][\A h \in Hops :
       TimerFires(h) /\ call[h].connected =>
         /\ call'[h].destroyed
         /\ call'[h].promise.state = "resolved"
         /\ Len(call'[h].promise.value) >= Len(call[h].whoisData)
         /\ SubSeq(call'[h].promise.value, 1, Len(call[h].whoisData))
              = call[h].whoisData]_vars



\* C28 as stated, for the second revision: a lookup with a string q whose
\* hops have settled is answered 200 with the report, and no such request is
\* answered 500.
C28_WellFormedAnswered200 ==
  Lookup /\ req.q.kind = "string" /\ pc = "done" =>
    /\ status = 200
    /\ HasTok(body, "title")
    /\ ~HasTok(body, "Unexpected Server Error")

====
